---- MODULE Spec2Model ----
(***************************************************************************)
(* Model of extensified.extension_on (src/extensified/_extension_decorator *)
(* .py): a decorator factory that copies the members a class declares      *)
(* itself onto another class.                                              *)
(*                                                                         *)
(* The state is the member table (__dict__) and the __bases__ of every     *)
(* class of a small program: the built-ins object and int, the class User  *)
(* of the test-suite fixture, and a palette of extension classes that      *)
(* between them declare every kind of member the decorator distinguishes.  *)
(* One action, Register, is one call  extension_on(T)(B).                  *)
(***************************************************************************)
EXTENDS Integers, Sequences, FiniteSets, TLC

VARIABLES tables,     \* [class -> [name -> entry]]   the classes' __dict__
          bases,      \* [class -> Seq(class)]        the classes' __bases__
          iterOrder,  \* iteration orders of the name sets built so far
          call,       \* the last call extension_on(T)(B) and its outcome
          nregs       \* number of calls made

vars == <<tables, bases, iterOrder, call, nregs>>

\* Number of calls of the decorator in one run.
MaxRegs == 2

-----------------------------------------------------------------------------
(* Values *)

NoFunc == <<"None", "None">>
NoSelf == <<"None", "None">>

Names == {"__init__", "__weakref__", "years_until_death", "make_older",
          "is_adult", "years_until_graduation", "create_adult",
          "validate_age", "limit"}

\* A name the class does not define.
Absent == [kind |-> "absent", func |-> NoFunc, fset |-> NoFunc, self |-> NoSelf]

\* def f(self, ...)
Function(f) == [kind |-> "function", func |-> f, fset |-> NoFunc, self |-> NoSelf]

\* @property (fset = NoFunc: no setter)
Property(g, s) == [kind |-> "property", func |-> g, fset |-> s, self |-> NoSelf]

\* classmethod(f), the object kept in a class's __dict__
ClassMethod(f) == [kind |-> "classmethod", func |-> f, fset |-> NoFunc, self |-> NoSelf]

\* staticmethod(f), the object kept in a class's __dict__
StaticMethod(f) == [kind |-> "staticmethod", func |-> f, fset |-> NoFunc, self |-> NoSelf]

\* a bound method: __func__ = f, __self__ = s
BoundMethod(s, f) == [kind |-> "method", func |-> f, fset |-> NoFunc, self |-> s]

\* a plain class attribute (neither callable nor a descriptor)
Data(v) == [kind |-> "data", func |-> v, fset |-> NoFunc, self |-> NoSelf]

\* the __weakref__ slot descriptor the interpreter gives a class
GetSet(c) == [kind |-> "getset_descriptor", func |-> <<c, "__weakref__">>,
              fset |-> NoFunc, self |-> NoSelf]

\* a built-in method of object
Wrapper(c, n) == [kind |-> "wrapper_descriptor", func |-> <<c, n>>,
                  fset |-> NoFunc, self |-> NoSelf]

TypeObj(c) == <<"type", c>>
InstanceOf(c) == <<"instance", c>>

-----------------------------------------------------------------------------
(* The classes of the program *)

Builtins == {"object", "int"}

Bundles == {"MethodsExt", "PropertiesExt", "FactoryExt", "ValidationExt",
            "ToolsExt", "OverrideExt", "EmptyExt", "SubExt"}

Classes == Builtins \cup {"User"} \cup Bundles

Targets == {"User", "int"}

Dict(entries) == [n \in Names |-> IF n \in DOMAIN entries THEN entries[n] ELSE Absent]

ClassDict(c) ==
  CASE c = "object" -> Dict([__init__ |-> Wrapper("object", "__init__")])
    [] c = "int" -> Dict(<<>>)
    [] c = "User" ->
         Dict([__init__ |-> Function(<<"User", "__init__">>),
               years_until_death |-> Function(<<"User", "years_until_death">>),
               __weakref__ |-> GetSet("User")])
    [] c = "MethodsExt" ->
         Dict([make_older |-> Function(<<"MethodsExt", "make_older">>),
               __weakref__ |-> GetSet("MethodsExt")])
    [] c = "PropertiesExt" ->
         Dict([is_adult |-> Property(<<"PropertiesExt", "is_adult">>, NoFunc),
               years_until_graduation |->
                 Property(<<"PropertiesExt", "years_until_graduation">>,
                          <<"PropertiesExt", "years_until_graduation.setter">>),
               __weakref__ |-> GetSet("PropertiesExt")])
    [] c = "FactoryExt" ->
         Dict([create_adult |-> ClassMethod(<<"FactoryExt", "create_adult">>),
               make_older |-> Function(<<"FactoryExt", "make_older">>),
               __weakref__ |-> GetSet("FactoryExt")])
    [] c = "ValidationExt" ->
         Dict([validate_age |-> StaticMethod(<<"ValidationExt", "validate_age">>),
               is_adult |-> Property(<<"ValidationExt", "is_adult">>, NoFunc),
               __weakref__ |-> GetSet("ValidationExt")])
    [] c = "ToolsExt" ->
         Dict([create_adult |-> ClassMethod(<<"ToolsExt", "create_adult">>),
               validate_age |-> StaticMethod(<<"ToolsExt", "validate_age">>)])
    [] c = "OverrideExt" ->
         Dict([years_until_death |-> Function(<<"OverrideExt", "years_until_death">>),
               __init__ |-> Function(<<"OverrideExt", "__init__">>),
               limit |-> Data(<<"int", "200">>),
               __weakref__ |-> GetSet("OverrideExt")])
    [] c = "EmptyExt" -> Dict(<<>>)
    [] c = "SubExt" ->
         Dict([create_adult |-> ClassMethod(<<"SubExt", "create_adult">>),
               make_older |-> Function(<<"SubExt", "make_older">>),
               years_until_death |-> Function(<<"SubExt", "years_until_death">>)])

ClassBases(c) ==
  CASE c = "object" -> <<>>
    [] c = "SubExt" -> <<"User">>
    [] OTHER -> <<"object">>

-----------------------------------------------------------------------------
(* The interpreter's operations the decorator calls *)

Range(s) == {s[i] : i \in DOMAIN s}

RECURSIVE Ancestors(_, _)
Ancestors(bs, c) == {c} \cup UNION {Ancestors(bs, b) : b \in Range(bs[c])}

\* dir(cls): the names in the __dict__ of cls and of its bases, recursively
dir(tbl, bs, c) == {n \in Names : \E a \in Ancestors(bs, c) : tbl[a][n] # Absent}

\* the entry attribute lookup finds: the class's own, else its bases' in order
RECURSIVE Lookup(_, _, _, _)
Lookup(tbl, bs, c, n) ==
  IF tbl[c][n] # Absent THEN tbl[c][n]
  ELSE LET found == {i \in DOMAIN bs[c] : Lookup(tbl, bs, bs[c][i], n) # Absent}
       IN IF found = {} THEN Absent
          ELSE Lookup(tbl, bs, bs[c][CHOOSE i \in found : \A j \in found : i <= j], n)

\* inspect.getattr_static(cls, name): the entry, no descriptor is invoked
getattr_static(tbl, bs, c, n) == Lookup(tbl, bs, c, n)

\* getattr(cls, name) on a class: the entry's __get__(None, cls)
getattr(tbl, bs, c, n) ==
  LET e == Lookup(tbl, bs, c, n)
  IN CASE e.kind = "classmethod" -> BoundMethod(TypeObj(c), e.func)
       [] e.kind = "staticmethod" -> Function(e.func)
       [] OTHER -> e

callable(v) == v.kind \in {"function", "method", "wrapper_descriptor"}

\* setattr(cls, name, value): built-in classes are immutable
setattr(tbl, c, n, v) ==
  IF c \in Builtins
  THEN [raised |-> "TypeError", tables |-> tbl]
  ELSE [raised |-> "None", tables |-> [tbl EXCEPT ![c][n] = v]]

-----------------------------------------------------------------------------
(* src/extensified/_extension_decorator.py *)

_is_descriptor(v) ==
  v.kind \in {"function", "method", "wrapper_descriptor", "property",
              "getset_descriptor", "classmethod", "staticmethod"}

_is_classmethod(v) == v.self # NoSelf /\ v.self[1] = "type"

_is_staticmethod(tbl, bs, c, n) == getattr_static(tbl, bs, c, n).kind = "staticmethod"

all_method_names(tbl, bs, c) ==
  {attr \in dir(tbl, bs, c) :
     callable(getattr(tbl, bs, c, attr)) \/ _is_descriptor(getattr(tbl, bs, c, attr))}

parent_classes_method_names(tbl, bs, c) ==
  UNION {{attr \in dir(tbl, bs, base) :
            callable(getattr(tbl, bs, base, attr))
            \/ _is_descriptor(getattr(tbl, bs, base, attr))}
         : base \in Range(bs[c])}

\* Variant: the names of the bases are not taken away.
all_names_as_own(tbl, bs, c) == all_method_names(tbl, bs, c)

_non_inherited_methods_names(tbl, bs, c) ==
  all_method_names(tbl, bs, c) \ parent_classes_method_names(tbl, bs, c)

\* Variant: the member is moved, taken off the extension class before it is set
\* on the target.
LoopBody_move(tbl, bs, target, ext, method_name) ==
  LET method == getattr(tbl, bs, ext, method_name)
      popped == [tbl EXCEPT ![ext][method_name] = Absent]
  IN IF _is_classmethod(method)
     THEN [set |-> setattr(popped, target, method_name, ClassMethod(method.func)),
           returns |-> TRUE]
     ELSE IF getattr_static(tbl, bs, ext, method_name).kind = "staticmethod"
     THEN [set |-> setattr(popped, target, method_name, StaticMethod(method.func)),
           returns |-> TRUE]
     ELSE [set |-> setattr(popped, target, method_name, method),
           returns |-> FALSE]

\* Variant: a classmethod is set as getattr returned it, bound to the extension
\* class.
LoopBody_bound(tbl, bs, target, ext, method_name) ==
  LET method == getattr(tbl, bs, ext, method_name)
  IN IF _is_classmethod(method)
     THEN [set |-> setattr(tbl, target, method_name, method), returns |-> TRUE]
     ELSE IF getattr_static(tbl, bs, ext, method_name).kind = "staticmethod"
     THEN [set |-> setattr(tbl, target, method_name, StaticMethod(method.func)),
           returns |-> TRUE]
     ELSE [set |-> setattr(tbl, target, method_name, method),
           returns |-> FALSE]

\* Variant: a staticmethod is set as getattr returned it, the plain function.
LoopBody_unwrapped(tbl, bs, target, ext, method_name) ==
  LET method == getattr(tbl, bs, ext, method_name)
  IN IF _is_classmethod(method)
     THEN [set |-> setattr(tbl, target, method_name, ClassMethod(method.func)),
           returns |-> TRUE]
     ELSE IF getattr_static(tbl, bs, ext, method_name).kind = "staticmethod"
     THEN [set |-> setattr(tbl, target, method_name, method), returns |-> TRUE]
     ELSE [set |-> setattr(tbl, target, method_name, method),
           returns |-> FALSE]

\* Variant: a property is rebuilt from its getter alone.
LoopBody_getter_only(tbl, bs, target, ext, method_name) ==
  LET method == getattr(tbl, bs, ext, method_name)
  IN IF _is_classmethod(method)
     THEN [set |-> setattr(tbl, target, method_name, ClassMethod(method.func)),
           returns |-> TRUE]
     ELSE IF getattr_static(tbl, bs, ext, method_name).kind = "staticmethod"
     THEN [set |-> setattr(tbl, target, method_name, StaticMethod(method.func)),
           returns |-> TRUE]
     ELSE IF method.kind = "property"
     THEN [set |-> setattr(tbl, target, method_name, Property(method.func, NoFunc)),
           returns |-> FALSE]
     ELSE [set |-> setattr(tbl, target, method_name, method),
           returns |-> FALSE]

\* Variant: the member is also set on the classes that derive from the target.
LoopBody_subclasses(tbl, bs, target, ext, method_name) ==
  LET method == getattr(tbl, bs, ext, method_name)
      value == IF _is_classmethod(method) THEN ClassMethod(method.func)
               ELSE IF getattr_static(tbl, bs, ext, method_name).kind = "staticmethod"
               THEN StaticMethod(method.func)
               ELSE method
      first == setattr(tbl, target, method_name, value)
      subs == {c \in DOMAIN bs : target \in Range(bs[c])}
  IN [set |-> [raised |-> first.raised,
               tables |-> [c \in DOMAIN tbl |->
                            IF c \in subs /\ first.raised = "None"
                            THEN [first.tables[c] EXCEPT ![method_name] = value]
                            ELSE first.tables[c]]],
      returns |-> value.kind \in {"classmethod", "staticmethod"}]

\* One pass of the loop body for method_name: what is set on the target, and
\* whether the decorator returns right after it.
LoopBody(tbl, bs, target, ext, method_name) ==
  LET method == getattr(tbl, bs, ext, method_name)
  IN IF _is_classmethod(method)
     THEN [set |-> setattr(tbl, target, method_name, ClassMethod(method.func)),
           returns |-> TRUE]
     ELSE IF _is_staticmethod(tbl, bs, ext, method_name)
     THEN [set |-> setattr(tbl, target, method_name, StaticMethod(method.func)),
           returns |-> TRUE]
     ELSE [set |-> setattr(tbl, target, method_name, method),
           returns |-> FALSE]

\* decorator(extension_class), iterating the own names in the given order from
\* position i on; done is the set of names set so far.
RECURSIVE decorator(_, _, _, _, _, _, _)
decorator(tbl, bs, target, ext, order, i, done) ==
  IF i > Len(order)
  THEN [raised |-> "None", tables |-> tbl, installed |-> done]
  ELSE LET step == LoopBody(tbl, bs, target, ext, order[i])
       IN IF step.set.raised # "None"
          THEN [raised |-> step.set.raised, tables |-> step.set.tables,
                installed |-> done]
          ELSE IF step.returns
          THEN [raised |-> "None", tables |-> step.set.tables,
                installed |-> done \cup {order[i]}]
          ELSE decorator(step.set.tables, bs, target, ext, order, i + 1,
                         done \cup {order[i]})

\* The orders in which a set of names can be iterated.
Orders(S) ==
  {o \in [1..Cardinality(S) -> S] : \A i, j \in 1..Cardinality(S) : o[i] = o[j] => i = j}

\* Iterating a set of str follows the strings' hashes, which are fixed for the
\* life of the process: the same set, built the same way, iterates the same.
OrderKey(tbl, bs, c) ==
  <<c, all_method_names(tbl, bs, c), parent_classes_method_names(tbl, bs, c)>>

OrdersOf(tbl, bs, c) ==
  LET key == OrderKey(tbl, bs, c)
      known == {m \in iterOrder : m[1] = key}
  IN IF known # {} THEN {m[2] : m \in known}
     ELSE Orders(_non_inherited_methods_names(tbl, bs, c))

-----------------------------------------------------------------------------
(* The program *)

NoCall == [target |-> "None", ext |-> "None", raised |-> "None",
           own |-> {}, installed |-> {}]

Init ==
  /\ tables = [c \in Classes |-> ClassDict(c)]
  /\ bases = [c \in Classes |-> ClassBases(c)]
  /\ iterOrder = {}
  /\ call = NoCall
  /\ nregs = 0

\* extension_on(target)(ext)
Register(target, ext) ==
  /\ nregs < MaxRegs
  /\ \E order \in OrdersOf(tables, bases, ext) :
       LET r == decorator(tables, bases, target, ext, order, 1, {})
       IN /\ tables' = r.tables
          /\ call' = [target |-> target, ext |-> ext, raised |-> r.raised,
                      own |-> _non_inherited_methods_names(tables, bases, ext),
                      installed |-> r.installed]
          /\ iterOrder' = iterOrder \cup {<<OrderKey(tables, bases, ext), order>>}
  /\ bases' = bases
  /\ nregs' = nregs + 1

Next == \E target \in Targets, ext \in Bundles : Register(target, ext)

Spec == Init /\ [][Next]_vars

-----------------------------------------------------------------------------
(* Attribute access as the callers of an extended class perform it *)

\* the result of calling f with s as its implicit first argument
Called(f, s) == [kind |-> "call", func |-> f, fset |-> NoFunc, self |-> s]

AttributeError == [kind |-> "AttributeError", func |-> NoFunc, fset |-> NoFunc,
                   self |-> NoSelf]

Stored == [kind |-> "stored", func |-> NoFunc, fset |-> NoFunc, self |-> NoSelf]

\* obj.name on an instance obj of class c that has no instance attribute name
InstanceGet(tbl, bs, c, n) ==
  LET e == Lookup(tbl, bs, c, n)
  IN CASE e.kind = "function" -> BoundMethod(InstanceOf(c), e.func)
       [] e.kind = "classmethod" -> BoundMethod(TypeObj(c), e.func)
       [] e.kind = "staticmethod" -> Function(e.func)
       [] e.kind = "property" -> Called(e.func, InstanceOf(c))
       [] e.kind = "absent" -> AttributeError
       [] OTHER -> e

\* obj.name = value on an instance obj of class c
InstanceSet(tbl, bs, c, n) ==
  LET e == Lookup(tbl, bs, c, n)
  IN IF e.kind = "property"
     THEN IF e.fset = NoFunc THEN AttributeError ELSE Called(e.fset, InstanceOf(c))
     ELSE Stored

-----------------------------------------------------------------------------
(* Properties *)

\* The last call extended a class that is not built-in and returned.
Extended == call.target \in Targets \ Builtins /\ call.raised = "None"

\* The step is a call of the decorator.
Registers == nregs' # nregs

\* n is callable or a descriptor as an attribute of class c.
MethodLike(c, n) ==
  /\ n \in dir(tables, bases, c)
  /\ \/ callable(getattr(tables, bases, c, n))
     \/ _is_descriptor(getattr(tables, bases, c, n))

\* C1: after extension_on(T)(B) returns for a class T that is not built-in,
\* every own name of B is a member of T.
AllOwnMembersInstalled ==
  Extended => \A n \in call.own : tables[call.target][n] # Absent

\* C2: extension_on(P)(B) raises TypeError for every built-in class P,
\* whatever B declares.
BuiltinTargetAlwaysRaises ==
  call.target \in Builtins => call.raised = "TypeError"

\* C3: a call that ends with TypeError leaves the member table and the bases
\* of every class as they were before the call.
FailureIsAtomic ==
  [][Registers /\ call'.raised = "TypeError" => tables' = tables /\ bases' = bases]_vars

\* C3: a call on a built-in class with a bundle that has own members has
\* raised.
FailureIsAtomicWitness ==
  /\ call.target \in Builtins
  /\ call.raised = "TypeError"
  /\ call.own # {}

LastRegistrationWins ==
  [][Registers /\ call'.raised = "None" /\ call'.target \notin Builtins =>
       \A n \in call'.own :
         \/ ClassDict(call'.target)[n] # Absent
         \/ call.raised = "None" /\ call.target = call'.target /\ n \in call.own
         => tables'[call'.target][n] = tables[call'.ext][n]]_vars

\* C6: registering the same bundle on the same class a second time raises
\* nothing and leaves the class's member table as the first call left it.
RegistrationIdempotent ==
  [][Registers /\ Extended /\ call'.target = call.target /\ call'.ext = call.ext =>
       call'.raised = "None" /\ tables'[call.target] = tables[call.target]]_vars

OwnMembersAreTheDifference ==
  [][Registers =>
       LET T == call'.target
           B == call'.ext
           inherited == {n \in Names : \E base \in Range(bases[B]) : MethodLike(base, n)}
       IN /\ call'.own = {n \in Names : MethodLike(B, n)} \ inherited
          /\ call'.installed \cap inherited = {}
          /\ \A n \in inherited : tables'[T][n] = tables[T][n]
          /\ \A n \in Names : tables'[T][n] # tables[T][n] =>
               MethodLike(B, n) /\ n \notin inherited]_vars

\* C9: a bundle that declares __init__ again has been registered on User and
\* its own member is on User, while User's __init__ is its own.
OwnMembersAreTheDifferenceWitness ==
  /\ call.ext = "OverrideExt"
  /\ call.target = "User"
  /\ tables["OverrideExt"]["__init__"] # Absent
  /\ "years_until_death" \in call.installed
  /\ tables["User"]["__init__"] = Function(<<"User", "__init__">>)

\* C10: a call changes nothing but T's entries for own names of B: every
\* other entry of every class and the bases of every class stay, and no name
\* a class has is ever lost.
RegisterFrame ==
  [][Registers =>
       /\ \A c \in Classes, n \in Names :
            tables'[c][n] # tables[c][n] => c = call'.target /\ n \in call'.own
       /\ bases' = bases
       /\ \A c \in Classes, n \in Names :
            tables[c][n] # Absent => tables'[c][n] # Absent]_vars

\* C10: two calls have been made, the last of which set members on a class
\* that other classes derive from.
RegisterFrameWitness ==
  /\ nregs = MaxRegs
  /\ call.raised = "None"
  /\ call.installed # {}
  /\ \E c \in Classes : call.target \in Range(bases[c])

====
